---- MODULE Spec2Model ----
(***************************************************************************)
(* Cashflow Modeller (cashflow_app3.py).                                   *)
(*                                                                         *)
(* Two state machines are modelled:                                        *)
(*   - the projection engine simulate_monthly_model, stepped one loop      *)
(*     iteration at a time, for a configuration and (in lockstep) for a    *)
(*     second configuration derived from it, so that two runs can be       *)
(*     compared;                                                           *)
(*   - the Streamlit script's handling of session_state across reruns      *)
(*     (scenario upload, Reset button, init_state_if_missing).             *)
(*                                                                         *)
(* Numbers.  The program computes in Python floats.  A float is modelled   *)
(* as an exact rational <<n, d>> in lowest terms, d > 0.  The inputs are   *)
(* drawn so that every value the engine computes is a dyadic rational      *)
(* small enough to be exact in a double (growth rates are multiples of     *)
(* 600 %, so the monthly rate is a multiple of 1/2), hence the rational    *)
(* is the float the program holds.  round(x, 2) is Python's: the nearest   *)
(* multiple of 1/100, ties to the even one.                                *)
(***************************************************************************)
EXTENDS Integers, Sequences, FiniteSets, TLC

VARIABLES cfg, alt, variant, sim, simAlt, ui

vars == <<cfg, alt, variant, sim, simAlt, ui>>

-----------------------------------------------------------------------------
(* Bounds of the model *)

\* the longest horizon simulated
MaxYears == 2
\* a run is followed only while the numerators and denominators of its
\* amounts stay below this (TLC's integers are 32 bits wide)
MaxNum == 100000000
\* the most withdrawal entries the user asks for in the form
MaxEntries == 2

-----------------------------------------------------------------------------
(* Program constants *)

\* for m in range(12)
MonthsPerYear == 12
\* ... and m == 11
LumpSumMonth == 11
\* round(..., 2): hundredths
RoundUnit == 100
\* annual_growth_rate / 100.0 / 12.0, annual_inflation / 100.0, ...
Percent == 100

-----------------------------------------------------------------------------
(* Float arithmetic, exact *)

Abs(x) == IF x < 0 THEN -x ELSE x

RECURSIVE GCD(_, _)
GCD(a, b) == IF b = 0 THEN a ELSE GCD(b, a % b)

\* the rational n/d (d # 0) in lowest terms with a positive denominator
Q(n, d) ==
    LET g == GCD(Abs(n), Abs(d))
        s == IF d < 0 THEN -1 ELSE 1
    IN  <<s * (n \div g), s * (d \div g)>>

\* float(i) of an integer i
Float(i) == <<i, 1>>

QAdd(a, b) ==
    IF a[2] = b[2] THEN Q(a[1] + b[1], a[2])
    ELSE LET g == GCD(a[2], b[2])
         IN  Q(a[1] * (b[2] \div g) + b[1] * (a[2] \div g), a[2] * (b[2] \div g))

QNeg(a) == <<-a[1], a[2]>>

QSub(a, b) == QAdd(a, QNeg(b))

QMul(a, b) ==
    LET g1 == GCD(Abs(a[1]), b[2])
        g2 == GCD(Abs(b[1]), a[2])
    IN  IF a[1] = 0 \/ b[1] = 0 THEN <<0, 1>>
        ELSE <<(a[1] \div g1) * (b[1] \div g2), (a[2] \div g2) * (b[2] \div g1)>>

\* a / b, b # 0 (Python raises ZeroDivisionError otherwise)
QDiv(a, b) == QMul(a, Q(b[2], b[1]))

QLess(a, b) == QSub(a, b)[1] < 0

QLeq(a, b) == QSub(a, b)[1] <= 0

\* a ** k for an integer k >= 0
RECURSIVE QPow(_, _)
QPow(a, k) == IF k = 0 THEN <<1, 1>> ELSE QMul(a, QPow(a, k - 1))

\* Python's round(x, 2) of a float: the nearest multiple of 1/100, a tie
\* going to the even multiple.  Computed digit by digit so that no
\* intermediate product leaves TLC's integers.
Round2(a) ==
    LET n  == Abs(a[1])
        d  == a[2]
        w  == n \div d
        r0 == n % d
        t1 == (r0 * 10) \div d
        r1 == (r0 * 10) % d
        t2 == (r1 * 10) \div d
        r2 == (r1 * 10) % d
        h  == t1 * 10 + t2
        up == (2 * r2 > d) \/ (2 * r2 = d /\ h % 2 = 1)
        c  == IF up THEN h + 1 ELSE h
        sg == IF a[1] < 0 THEN -1 ELSE 1
    IN  QAdd(<<sg * w, 1>>, Q(sg * c, RoundUnit))

-----------------------------------------------------------------------------
(* simulate_monthly_model *)

TimingOptions == {"Start of Month", "End of Month"}

\* contribution_timing.startswith("Start") / .startswith("End")
StartsWithStart(t) == t = "Start of Month"
StartsWithEnd(t) == t = "End of Month"

\* int(projection_years) * 12
months(c) == c.projection_years * MonthsPerYear

\* the nominal APR / 12
monthly_rate(c) ==
    QDiv(QDiv(Float(c.annual_growth_rate), Float(Percent)), Float(MonthsPerYear))

\* monthly_income * ((1 + income_growth_rate/100.0) ** (year - 1)) if
\* use_income_growth else monthly_income
monthly_income_val(c, year) ==
    IF c.use_income_growth
    THEN QMul(Float(c.monthly_income),
              QPow(QAdd(Float(1), QDiv(Float(c.income_growth_rate), Float(Percent))),
                   year - 1))
    ELSE Float(c.monthly_income)

monthly_expenses_val(c, year) ==
    IF c.use_expenses_growth
    THEN QMul(Float(c.monthly_expenses),
              QPow(QAdd(Float(1), QDiv(Float(c.expenses_growth_rate), Float(Percent))),
                   year - 1))
    ELSE Float(c.monthly_expenses)

\* (mutant) a Monthly rule fires in its start year only
MonthlyFiresStartYearOnly(w, year) == w.type = "Monthly" /\ year = w.start_year

\* (mutant) a Lump Sum rule fires in every month of its start year
LumpSumFiresAllYear(w, year, m) == w.type = "Lump Sum" /\ year = w.start_year

\* whether rule w is subtracted in month m (0-based) of the given year: the
\* two if-statements of the withdrawal loop
MonthlyFires(w, year) == w.type = "Monthly" /\ year >= w.start_year

LumpSumFires(w, year, m) ==
    w.type = "Lump Sum" /\ year = w.start_year /\ m = LumpSumMonth

\* one rule applied to acc = [balance, year_withdrawals]
ApplyWithdrawal(w, year, m, acc) ==
    LET a1 == IF MonthlyFires(w, year)
              THEN [balance |-> QSub(acc.balance, Float(w.amount)),
                    year_withdrawals |-> QAdd(acc.year_withdrawals, Float(w.amount))]
              ELSE acc
    IN  IF LumpSumFires(w, year, m)
        THEN [balance |-> QSub(a1.balance, Float(w.amount)),
              year_withdrawals |-> QAdd(a1.year_withdrawals, Float(w.amount))]
        ELSE a1

\* (mutant) the loop stops after the first rule
ApplyWithdrawalsFirstOnly(ws, year, m, acc) ==
    IF ws = <<>> THEN acc ELSE ApplyWithdrawal(Head(ws), year, m, acc)

\* for w in withdrawals: ..., in list order
RECURSIVE ApplyWithdrawals(_, _, _, _)
ApplyWithdrawals(ws, year, m, acc) ==
    IF ws = <<>> THEN acc
    ELSE ApplyWithdrawals(Tail(ws), year, m, ApplyWithdrawal(Head(ws), year, m, acc))

\* what the error taxonomy calls an invalid configuration
NegativeAmount(c) ==
    \/ c.initial_investment < 0 \/ c.monthly_income < 0 \/ c.monthly_expenses < 0
    \/ c.monthly_contribution < 0
    \/ \E i \in 1..Len(c.withdrawals) : c.withdrawals[i].amount < 0

Invalid(c) ==
    \/ c.projection_years < 1
    \/ NegativeAmount(c)
    \/ \E i \in 1..Len(c.withdrawals) : c.withdrawals[i].start_year < 1

\* the locals of a call after the assignments that precede the year loop, the
\* call being at pc; hist is not program state: it remembers the net flows and
\* withdrawals applied so far and each finished year's unrounded totals
Locals(c, pc) ==
    [pc |-> pc,
     year |-> 1,
     m |-> 0,
     balance |-> Float(c.initial_investment),
     cumulative_inflation |-> Float(1),
     cum_deposits |-> Float(0),
     cum_interest |-> Float(0),
     year_interest |-> Float(0),
     year_deposits |-> Float(0),
     year_withdrawals |-> Float(0),
     display_factor |-> <<0, 0>>,
     rows |-> <<>>,
     hist |-> [net |-> Float(0), withdrawn |-> Float(0), steps |-> 0, years |-> <<>>]]

\* (mutant) the call raises at entry when the configuration is invalid
EntryValidating(c) == Locals(c, IF Invalid(c) THEN "raised" ELSE "for_year")

\* the call enters the year loop, whatever the configuration
Entry(c) == Locals(c, "for_year")

\* for year in range(1, int(projection_years) + 1): the three resets
YearStart(c, s) ==
    [s EXCEPT !.pc = "for_month",
              !.m = 0,
              !.year_interest = Float(0),
              !.year_deposits = Float(0),
              !.year_withdrawals = Float(0)]

\* (mutant) the contribution is not yet in the balance that earns interest
AfterStartContributionLate(c, s) == s.balance

\* the balance after the start-of-month contribution
AfterStartContribution(c, s) ==
    IF c.use_contributions /\ StartsWithStart(c.contribution_timing)
    THEN QAdd(s.balance, Float(c.monthly_contribution))
    ELSE s.balance

\* (mutant) simple interest, on the initial investment
InterestSimple(c, b) == QMul(Float(c.initial_investment), monthly_rate(c))

\* interest = balance * monthly_rate
Interest(c, b) == QMul(b, monthly_rate(c))

\* (mutant) the expenses are forgotten
NetFlowIncomeOnly(c, year) == monthly_income_val(c, year)

\* balance += (monthly_income_val - monthly_expenses_val)
NetFlow(c, year) == QSub(monthly_income_val(c, year), monthly_expenses_val(c, year))

\* (mutant) the balance is floored at zero
AfterEndContributionClamped(c, b) ==
    LET x == IF c.use_contributions /\ StartsWithEnd(c.contribution_timing)
             THEN QAdd(b, Float(c.monthly_contribution))
             ELSE b
    IN  IF x[1] < 0 THEN Float(0) ELSE x

\* the balance after the end-of-month contribution
AfterEndContribution(c, b) ==
    IF c.use_contributions /\ StartsWithEnd(c.contribution_timing)
    THEN QAdd(b, Float(c.monthly_contribution))
    ELSE b

\* what one month deposits: at the start or at the end, when enabled
Deposit(c) ==
    IF c.use_contributions
       /\ (StartsWithStart(c.contribution_timing) \/ StartsWithEnd(c.contribution_timing))
    THEN Float(c.monthly_contribution)
    ELSE Float(0)

\* one iteration of for m in range(12)
MonthStep(c, s) ==
    LET b1       == AfterStartContribution(c, s)
        interest == Interest(c, b1)
        b2       == QAdd(b1, interest)
        b3       == QAdd(b2, NetFlow(c, s.year))
        w        == ApplyWithdrawals(c.withdrawals, s.year, s.m,
                        [balance |-> b3, year_withdrawals |-> s.year_withdrawals])
        b5       == AfterEndContribution(c, w.balance)
    IN  [s EXCEPT !.m = s.m + 1,
                  !.balance = b5,
                  !.year_deposits = QAdd(s.year_deposits, Deposit(c)),
                  !.cum_deposits = QAdd(s.cum_deposits, Deposit(c)),
                  !.year_interest = QAdd(s.year_interest, interest),
                  !.cum_interest = QAdd(s.cum_interest, interest),
                  !.year_withdrawals = w.year_withdrawals,
                  !.hist = [@ EXCEPT !.net = QAdd(@, NetFlow(c, s.year)),
                                     !.withdrawn = QAdd(@, QSub(w.year_withdrawals,
                                                               s.year_withdrawals)),
                                     !.steps = @ + 1]]

\* (mutant) the rate is added, not compounded
NextInflationAdditive(c, s) ==
    IF c.use_inflation
    THEN QAdd(s.cumulative_inflation, QDiv(Float(c.annual_inflation), Float(Percent)))
    ELSE s.cumulative_inflation

\* cumulative_inflation *= (1.0 + float(annual_inflation) / 100.0)
NextInflation(c, s) ==
    IF c.use_inflation
    THEN QMul(s.cumulative_inflation,
              QAdd(Float(1), QDiv(Float(c.annual_inflation), Float(Percent))))
    ELSE s.cumulative_inflation

\* display_factor = cumulative_inflation if use_inflation else 1.0
DisplayFactor(c, ci) == IF c.use_inflation THEN ci ELSE Float(1)

\* the dictionary appended to rows
Row(c, s, display_factor) ==
    ("Year" :> s.year)
    @@ ("Yearly Deposits" :> Round2(s.year_deposits))
    @@ ("Yearly Interest" :> Round2(s.year_interest))
    @@ ((IF c.use_inflation THEN "Cumulative Deposits (real)" ELSE "Cumulative Deposits")
            :> Round2(QDiv(s.cum_deposits, display_factor)))
    @@ ((IF c.use_inflation THEN "Cumulative Interest (real)" ELSE "Cumulative Interest")
            :> Round2(QDiv(s.cum_interest, display_factor)))
    @@ ("Yearly Withdrawals" :> Round2(s.year_withdrawals))
    @@ ("End Balance (nominal)" :> Round2(s.balance))
    @@ ("End Balance (real)" :>
            IF c.use_inflation THEN Round2(QDiv(s.balance, display_factor)) ELSE "None")

\* the end of the year loop's body: the inflation factor and the row.  A
\* display factor of zero makes the first division raise ZeroDivisionError.
YearEnd(c, s) ==
    LET ci == NextInflation(c, s)
        df == DisplayFactor(c, ci)
    IN  IF df[1] = 0
        THEN [s EXCEPT !.pc = "raised", !.cumulative_inflation = ci, !.display_factor = df]
        ELSE [s EXCEPT !.pc = "for_year",
                       !.year = s.year + 1,
                       !.cumulative_inflation = ci,
                       !.display_factor = df,
                       !.rows = Append(s.rows, Row(c, s, df)),
                       !.hist = [@ EXCEPT !.years = Append(@,
                                    [deposits |-> s.year_deposits,
                                     interest |-> s.year_interest,
                                     balance |-> s.balance,
                                     display_factor |-> df])]]

\* df = pd.DataFrame(rows); ...; return df
Return(c, s) == [s EXCEPT !.pc = "returned"]

-----------------------------------------------------------------------------
(* The configurations simulated *)

WithdrawalTypes == {"Monthly", "Lump Sum"}

\* the keyword arguments of a call
ConfigSet(inits, incs, exps, rates, years, cons, wlists, infs, igs, egs) ==
    { [initial_investment |-> i, monthly_income |-> inc, monthly_expenses |-> ex,
       annual_growth_rate |-> r, projection_years |-> n,
       use_contributions |-> con.use, monthly_contribution |-> con.amount,
       contribution_timing |-> con.timing,
       withdrawals |-> ws,
       use_inflation |-> inf.use, annual_inflation |-> inf.rate,
       use_income_growth |-> ig.use, income_growth_rate |-> ig.rate,
       use_expenses_growth |-> eg.use, expenses_growth_rate |-> eg.rate] :
      i \in inits, inc \in incs, ex \in exps, r \in rates, n \in years,
      con \in cons, ws \in wlists, inf \in infs, ig \in igs, eg \in egs }

Rule(t, a, y) == [type |-> t, amount |-> a, start_year |-> y]

Off == [use |-> FALSE, rate |-> 0]
On(r) == [use |-> TRUE, rate |-> r]
NoContribution == [use |-> FALSE, amount |-> 0, timing |-> "Start of Month"]
Contribution(a, t) == [use |-> TRUE, amount |-> a, timing |-> t]

\* growth rates (% a year) whose monthly rate is a multiple of 1/2
GrowthRates == {-2400, -1200, -600, 0, 1200}

AllContributions == {NoContribution} \cup {Contribution(1, t) : t \in TimingOptions}

\* what the form can produce (amounts >= 0, 1 <= start_year <= projection_years
\* <= MaxYears) and, for the inflation rate, -100 as well
ValidConfigs ==
    ConfigSet({0, 4}, {0, 2}, {0, 3}, GrowthRates, 1..MaxYears, AllContributions,
              {<<>>, <<Rule("Monthly", 1, 1), Rule("Lump Sum", 2, 1)>>},
              {Off, On(0), On(100), On(-100)}, {Off, On(100)}, {Off, On(100)})

\* the scenario of the documentation: income 1000 a month, nothing else
ExampleConfigs ==
    ConfigSet({0}, {1000}, {0}, {0}, 1..MaxYears, {NoContribution}, {<<>>},
              {Off}, {Off}, {Off})

InvalidConfigs ==
    { c \in ConfigSet({-4, 4}, {-2, 2}, {0}, {0, 1200}, (-1..MaxYears),
                      {NoContribution, Contribution(-1, "Start of Month")},
                      {<<>>, <<Rule("Monthly", -1, 1)>>, <<Rule("Monthly", 1, 0)>>,
                       <<Rule("Lump Sum", 1, 0)>>},
                      {Off, On(-100)}, {Off}, {Off}) : Invalid(c) }

Configs == ValidConfigs \cup ExampleConfigs \cup InvalidConfigs

-----------------------------------------------------------------------------
(* Pairs of configurations: a configuration and one derived from it *)

\* the same configuration with the contribution at the end of the month
TimingVariant(c) == [c EXCEPT !.contribution_timing = "End of Month"]

\* the same configuration with one more withdrawal rule
WithExtra(c, w) == [c EXCEPT !.withdrawals = Append(@, w)]

\* the reorderings of a list
Reorderings(ws) ==
    LET n == Len(ws)
        perms == { p \in [1..n -> 1..n] : \A i, j \in 1..n : i # j => p[i] # p[j] }
    IN  { [i \in 1..n |-> ws[p[i]]] : p \in perms }

PairConfigs ==
    ConfigSet({0, 4}, {0, 2}, {0, 3}, GrowthRates, 1..MaxYears, AllContributions,
              {<<>>, <<Rule("Monthly", 1, 1), Rule("Lump Sum", 2, 1)>>,
               <<Rule("Lump Sum", 3, 1), Rule("Monthly", 2, MaxYears),
                 Rule("Lump Sum", 3, 1)>>},
              {Off}, {Off, On(100)}, {Off})

ExtraAmounts == {0, 1, 3}

\* the second configurations of c, each with the way it was derived
Variants(c) ==
    { [kind |-> "timing", cfg |-> TimingVariant(c)] :
        x \in { y \in {c} : y.use_contributions
                            /\ y.contribution_timing = "Start of Month" } }
    \cup { [kind |-> "lump", cfg |-> WithExtra(c, Rule("Lump Sum", a, y))] :
             a \in ExtraAmounts, y \in 1..c.projection_years }
    \cup { [kind |-> "monthly", cfg |-> WithExtra(c, Rule("Monthly", a, y))] :
             a \in ExtraAmounts, y \in 1..c.projection_years }
    \cup { [kind |-> "perm", cfg |-> [c EXCEPT !.withdrawals = ws]] :
             ws \in Reorderings(c.withdrawals) \ {c.withdrawals} }

-----------------------------------------------------------------------------
(* The script: session_state across reruns *)

\* session_state is modelled as a function whose domain is the set of keys
\* present; Python's None is the string "None"; floats are written as the
\* integers they equal
None == "None"

DEFAULTS ==
    ("initial_investment" :> 0)
    @@ ("monthly_income" :> 0)
    @@ ("monthly_expenses" :> 0)
    @@ ("annual_growth_rate" :> 6)
    @@ ("projection_years" :> 30)
    @@ ("use_contributions" :> FALSE)
    @@ ("monthly_contribution" :> 0)
    @@ ("contribution_timing" :> "Start of Month")
    @@ ("use_withdrawals" :> FALSE)
    @@ ("num_withdrawals" :> 0)
    @@ ("withdrawals" :> <<>>)
    @@ ("use_inflation" :> FALSE)
    @@ ("annual_inflation" :> 2)
    @@ ("use_income_growth" :> FALSE)
    @@ ("income_growth_rate" :> 0)
    @@ ("use_expenses_growth" :> FALSE)
    @@ ("expenses_growth_rate" :> 0)

\* f"w_type_{i}", f"w_amount_{i}", f"w_start_{i}" for i = 0, 1, ...
WTypeKeys == <<"w_type_0", "w_type_1", "w_type_2", "w_type_3">>
WAmountKeys == <<"w_amount_0", "w_amount_1", "w_amount_2", "w_amount_3">>
WStartKeys == <<"w_start_0", "w_start_1", "w_start_2", "w_start_3">>
w_type(i) == WTypeKeys[i + 1]
w_amount(i) == WAmountKeys[i + 1]
w_start(i) == WStartKeys[i + 1]

Range(seq) == { seq[i] : i \in 1..Len(seq) }

\* k.startswith("w_type_") or k.startswith("w_amount_") or k.startswith("w_start_")
IsDynamicKey(k) == k \in Range(WTypeKeys) \cup Range(WAmountKeys) \cup Range(WStartKeys)

\* st.session_state[k] = v
Set(ss, k, v) == (k :> v) @@ ss

\* st.session_state.get(k, d)
Get(ss, k, d) == IF k \in DOMAIN ss THEN ss[k] ELSE d

\* del st.session_state[k] for every k of ks
Delete(ss, ks) == [k \in DOMAIN ss \ ks |-> ss[k]]

\* the scenario files the user has: the name and the parsed JSON object, its
\* items in file order (the order json.loads keeps)
Files ==
    ("a.json" :>
        << <<"initial_investment", 4>>,
           <<"use_withdrawals", TRUE>>,
           <<"num_withdrawals", 1>>,
           <<"withdrawals", <<[type |-> "Lump Sum", amount |-> 2, start_year |-> 1]>> >> >>)
    @@ ("b.json" :>
        << <<"monthly_income", 2>>, <<"projection_years", 5>> >>)

\* for i, w in enumerate(v): the three keys of each entry
RECURSIVE PopulateEntries(_, _, _)
PopulateEntries(ss, v, i) ==
    IF i >= Len(v) THEN ss
    ELSE PopulateEntries(
             Set(Set(Set(ss, w_type(i), v[i + 1].type),
                     w_amount(i), v[i + 1].amount),
                 w_start(i), v[i + 1].start_year),
             v, i + 1)

\* for k, v in parsed.items(): ...
RECURSIVE ApplyItems(_, _)
ApplyItems(ss, items) ==
    IF items = <<>> THEN ss
    ELSE LET k == items[1][1]
             v == items[1][2]
         IN  ApplyItems(
                 IF k = "withdrawals"
                 THEN PopulateEntries(Set(Set(ss, "withdrawals", v),
                                          "num_withdrawals", Len(v)), v, 0)
                 ELSE Set(ss, k, v),
                 Tail(items))

\* whether the upload block applies the uploaded file
UploadPending(u) ==
    u.uploaded # None /\ u.uploaded # Get(u.session_state, "_last_uploaded_name", None)

\* the body of the upload block, up to the rerun
LoadScenario(ss, name) == Set(ApplyItems(ss, Files[name]), "_last_uploaded_name", name)

\* the body of the Reset button's block, up to the rerun
ResetToDefaults(ss) ==
    LET withDefaults == [k \in DOMAIN ss \cup DOMAIN DEFAULTS |->
                            IF k \in DOMAIN DEFAULTS THEN DEFAULTS[k] ELSE ss[k]]
        keys_to_remove == { k \in DOMAIN withDefaults : IsDynamicKey(k) }
    IN  Set(Delete(withDefaults, keys_to_remove), "_last_uploaded_name", None)

RECURSIVE EnsureEntries(_, _, _)
EnsureEntries(ss, n, i) ==
    IF i >= n THEN ss
    ELSE LET s1 == IF w_type(i) \notin DOMAIN ss THEN Set(ss, w_type(i), "Monthly") ELSE ss
             s2 == IF w_amount(i) \notin DOMAIN s1 THEN Set(s1, w_amount(i), 0) ELSE s1
             s3 == IF w_start(i) \notin DOMAIN s2 THEN Set(s2, w_start(i), 1) ELSE s2
         IN  EnsureEntries(s3, n, i + 1)

init_state_if_missing(ss) ==
    LET s1 == [k \in DOMAIN ss \cup DOMAIN DEFAULTS |->
                  IF k \in DOMAIN ss THEN ss[k] ELSE DEFAULTS[k]]
    IN  EnsureEntries(s1, s1["num_withdrawals"], 0)

\* a session before its first run: nothing in session_state, nothing uploaded
UiStart ==
    [pc |-> "upload", session_state |-> <<>>, uploaded |-> None,
     reset_clicked |-> FALSE, event |-> "open"]

\* what the user can type into the widgets modelled: the initial investment,
\* the withdrawals checkbox and, while it is ticked, the number of entries
Edits(u) ==
    { <<"initial_investment", v>> : v \in {0, 4} }
    \cup { <<"use_withdrawals", v>> : v \in BOOLEAN }
    \cup { <<"num_withdrawals", v>> :
             v \in { n \in 1..MaxEntries : u.session_state["use_withdrawals"] } }

-----------------------------------------------------------------------------
(* The state machine of a call, and of a second call in lockstep *)

Small(q) == Abs(q[1]) <= MaxNum /\ q[2] <= MaxNum

\* the amounts of a run are within the range followed
Fits(s) == Small(s.balance) /\ Small(s.cum_interest) /\ Small(s.year_interest)

\* the script is not followed while the engine is
UiIdle == [pc |-> "off"]

Init ==
    /\ cfg \in Configs
    /\ variant = "none"
    /\ alt = cfg
    /\ sim = Entry(cfg)
    /\ simAlt = Entry(alt)
    /\ ui = UiIdle

InitPair ==
    /\ cfg \in PairConfigs
    /\ \E v \in Variants(cfg) : variant = v.kind /\ alt = v.cfg
    /\ sim = Entry(cfg)
    /\ simAlt = Entry(alt)
    /\ ui = UiIdle

\* range(1, int(projection_years) + 1) has not run out
InRange(c, year) == year <= c.projection_years

SimYearStart ==
    /\ sim.pc = "for_year" /\ simAlt.pc = "for_year"
    /\ InRange(cfg, sim.year)
    /\ sim' = YearStart(cfg, sim)
    /\ simAlt' = YearStart(alt, simAlt)
    /\ UNCHANGED <<cfg, alt, variant, ui>>

SimMonth ==
    /\ sim.pc = "for_month" /\ simAlt.pc = "for_month"
    /\ sim.m < MonthsPerYear
    /\ Fits(sim) /\ Fits(simAlt)
    /\ sim' = MonthStep(cfg, sim)
    /\ simAlt' = MonthStep(alt, simAlt)
    /\ Fits(sim') /\ Fits(simAlt')
    /\ UNCHANGED <<cfg, alt, variant, ui>>

SimYearEnd ==
    /\ sim.pc = "for_month" /\ simAlt.pc = "for_month"
    /\ sim.m = MonthsPerYear
    /\ Fits(sim) /\ Fits(simAlt)
    /\ sim' = YearEnd(cfg, sim)
    /\ simAlt' = YearEnd(alt, simAlt)
    /\ UNCHANGED <<cfg, alt, variant, ui>>

SimReturn ==
    /\ sim.pc = "for_year" /\ simAlt.pc = "for_year"
    /\ ~InRange(cfg, sim.year)
    /\ sim' = Return(cfg, sim)
    /\ simAlt' = Return(alt, simAlt)
    /\ UNCHANGED <<cfg, alt, variant, ui>>

Next == SimYearStart \/ SimMonth \/ SimYearEnd \/ SimReturn

Spec == Init /\ [][Next]_vars

SpecPair == InitPair /\ [][Next]_vars

-----------------------------------------------------------------------------
(* The state machine of the script *)

\* the engine is not followed while the script is
IdleConfig ==
    [initial_investment |-> 0, monthly_income |-> 0, monthly_expenses |-> 0,
     annual_growth_rate |-> 0, projection_years |-> 1,
     use_contributions |-> FALSE, monthly_contribution |-> 0,
     contribution_timing |-> "Start of Month", withdrawals |-> <<>>,
     use_inflation |-> FALSE, annual_inflation |-> 0,
     use_income_growth |-> FALSE, income_growth_rate |-> 0,
     use_expenses_growth |-> FALSE, expenses_growth_rate |-> 0]

InitUI ==
    /\ cfg = IdleConfig
    /\ variant = "none"
    /\ alt = cfg
    /\ sim = Entry(cfg)
    /\ simAlt = Entry(alt)
    /\ ui = UiStart

\* the user puts a file into the uploader
UserUpload ==
    /\ ui.pc = "idle"
    /\ \E name \in DOMAIN Files :
          ui' = [ui EXCEPT !.uploaded = name, !.pc = "upload", !.event = "upload"]
    /\ UNCHANGED <<cfg, alt, variant, sim, simAlt>>

\* the user takes the file out of the uploader
UserRemoveUpload ==
    /\ ui.pc = "idle"
    /\ ui.uploaded # None
    /\ ui' = [ui EXCEPT !.uploaded = None, !.pc = "upload", !.event = "remove"]
    /\ UNCHANGED <<cfg, alt, variant, sim, simAlt>>

\* the user changes a widget: its key gets the value and the script reruns
UserEdit ==
    /\ ui.pc = "idle"
    /\ \E e \in Edits(ui) :
          ui' = [ui EXCEPT !.session_state = Set(@, e[1], e[2]),
                           !.pc = "upload", !.event = "edit"]
    /\ UNCHANGED <<cfg, alt, variant, sim, simAlt>>

\* the user presses "Reset to defaults (clear all)"
UserReset ==
    /\ ui.pc = "idle"
    /\ ui' = [ui EXCEPT !.reset_clicked = TRUE, !.pc = "upload", !.event = "reset"]
    /\ UNCHANGED <<cfg, alt, variant, sim, simAlt>>

\* the upload block: a pending file is loaded and the script reruns (a rerun
\* starts the script again with every button unpressed)
RunUpload ==
    /\ ui.pc = "upload"
    /\ ui' = IF UploadPending(ui)
             THEN [ui EXCEPT !.session_state = LoadScenario(@, ui.uploaded),
                             !.reset_clicked = FALSE, !.pc = "upload"]
             ELSE [ui EXCEPT !.pc = "reset"]
    /\ UNCHANGED <<cfg, alt, variant, sim, simAlt>>

\* the Reset button's block
RunReset ==
    /\ ui.pc = "reset"
    /\ ui' = IF ui.reset_clicked
             THEN [ui EXCEPT !.session_state = ResetToDefaults(@),
                             !.reset_clicked = FALSE, !.pc = "upload"]
             ELSE [ui EXCEPT !.pc = "init"]
    /\ UNCHANGED <<cfg, alt, variant, sim, simAlt>>

\* init_state_if_missing()
RunInit ==
    /\ ui.pc = "init"
    /\ ui' = [ui EXCEPT !.session_state = init_state_if_missing(@), !.pc = "widgets"]
    /\ UNCHANGED <<cfg, alt, variant, sim, simAlt>>

\* the widgets, the simulation and the display: the run ends
RunRest ==
    /\ ui.pc = "widgets"
    /\ ui' = [ui EXCEPT !.pc = "idle"]
    /\ UNCHANGED <<cfg, alt, variant, sim, simAlt>>

NextUI ==
    \/ UserUpload \/ UserRemoveUpload \/ UserEdit \/ UserReset
    \/ RunUpload \/ RunReset \/ RunInit \/ RunRest

SpecUI == InitUI /\ [][NextUI]_vars

-----------------------------------------------------------------------------
(* Vocabulary of the properties *)

\* the unrounded balance at the end of year y of a run
EndBalance(s, y) == s.hist.years[y].balance

\* the years a run has finished
YearsDone(s) == Len(s.hist.years)

\* the optional features all switched off
AllDisabled(c) ==
    /\ ~c.use_contributions /\ c.withdrawals = <<>> /\ ~c.use_inflation
    /\ ~c.use_income_growth /\ ~c.use_expenses_growth

\* 1 + annual_growth_rate/100/12, written out
GrowthFactor(c) == Q(1200 + c.annual_growth_rate, 1200)

\* the rule a "lump" or "monthly" pair adds
Extra == alt.withdrawals[Len(alt.withdrawals)]

RECURSIVE SumField(_, _)
SumField(ys, f) ==
    IF ys = <<>> THEN Float(0) ELSE QAdd(ys[1][f], SumField(Tail(ys), f))

Max(a, b) == IF a >= b THEN a ELSE b

-----------------------------------------------------------------------------
(* C1 *)

\* C1, as stated: an invalid configuration (projection_years < 1, a negative
\* amount, a withdrawal with start_year < 1) is rejected at entry: no month is
\* simulated and the call does not return a table.
C1_RejectedAtEntry ==
    Invalid(cfg) => (sim.hist.steps = 0 /\ sim.pc # "returned")

\* C1, amended: the engine does not validate.  For an invalid configuration it
\* signals no error at entry and runs the loops as for any other input: with
\* projection_years < 1 it simulates no month and returns an empty table;
\* otherwise it simulates the months, and when it returns it has simulated all
\* 12 * projection_years of them and returns projection_years rows.  The only
\* error it can signal is the year-end division by a display factor of zero
\* (inflation enabled at -100 %), after the twelve months of year 1.
C1_NoValidation ==
    Invalid(cfg) =>
        /\ sim.pc = "raised" =>
              /\ sim.hist.steps = MonthsPerYear
              /\ cfg.use_inflation /\ cfg.annual_inflation = -Percent
        /\ cfg.projection_years < 1 =>
              (sim.hist.steps = 0 /\ sim.rows = <<>> /\ sim.pc # "raised")
        /\ sim.pc = "returned" =>
              /\ Len(sim.rows) = Max(cfg.projection_years, 0)
              /\ sim.hist.steps = MonthsPerYear * Max(cfg.projection_years, 0)

\* an invalid configuration (a negative amount) simulated to the end, with rows
C1_Witness ==
    /\ NegativeAmount(cfg) /\ cfg.projection_years >= 1
    /\ sim.pc = "returned" /\ Len(sim.rows) = cfg.projection_years

-----------------------------------------------------------------------------
(* C5 *)

\* C5: with every optional feature off, no income and no expenses and a
\* positive initial investment, the nominal end balance reported for each year
\* y (the last one, N, included) is initial_investment *
\* (1 + annual_growth_rate/100/12)^(12*y), to the 2 decimals reported.
C5_CompoundGrowth ==
    (/\ AllDisabled(cfg) /\ cfg.monthly_income = 0 /\ cfg.monthly_expenses = 0
     /\ cfg.initial_investment > 0 /\ cfg.projection_years >= 1) =>
        \A y \in 1..Len(sim.rows) :
            sim.rows[y]["End Balance (nominal)"] =
                Round2(QMul(Float(cfg.initial_investment),
                            QPow(GrowthFactor(cfg), MonthsPerYear * y)))

\* such a run, with a growth rate whose compounding shows, returned after two
\* years
C5_Witness ==
    /\ AllDisabled(cfg) /\ cfg.monthly_income = 0 /\ cfg.monthly_expenses = 0
    /\ cfg.initial_investment > 0 /\ cfg.annual_growth_rate = 1200
    /\ sim.pc = "returned" /\ Len(sim.rows) = 2
    /\ sim.rows[2]["End Balance (nominal)"] = Float(4 * 16777216)

-----------------------------------------------------------------------------
(* C6 *)

\* C6: with a growth rate of 0 and contributions, withdrawals, inflation and
\* income/expenses growth off, the call returns exactly projection_years rows,
\* Year = 1, 2, ... in order; the row of year y has Yearly Interest 0 and
\* End Balance (nominal) = initial + 12 * y * (income - expenses).  Initial 0,
\* income 1000, one year: one row, year 1, end balance 12000, interest 0.
C6_ZeroRateRows ==
    (AllDisabled(cfg) /\ cfg.annual_growth_rate = 0 /\ cfg.projection_years >= 1) =>
        /\ sim.pc = "returned" => Len(sim.rows) = cfg.projection_years
        /\ Len(sim.rows) <= cfg.projection_years
        /\ \A y \in 1..Len(sim.rows) :
              /\ sim.rows[y]["Year"] = y
              /\ sim.rows[y]["Yearly Interest"] = Float(0)
              /\ sim.rows[y]["End Balance (nominal)"] =
                    Float(cfg.initial_investment
                          + 12 * y * (cfg.monthly_income - cfg.monthly_expenses))
        /\ (/\ cfg.initial_investment = 0 /\ cfg.monthly_income = 1000
            /\ cfg.monthly_expenses = 0 /\ cfg.projection_years = 1
            /\ sim.pc = "returned") =>
              /\ Len(sim.rows) = 1
              /\ sim.rows[1]["Year"] = 1
              /\ sim.rows[1]["End Balance (nominal)"] = Float(12000)
              /\ sim.rows[1]["Yearly Interest"] = Float(0)

\* the documented scenario, returned
C6_Witness ==
    /\ AllDisabled(cfg) /\ cfg.annual_growth_rate = 0
    /\ cfg.initial_investment = 0 /\ cfg.monthly_income = 1000
    /\ cfg.monthly_expenses = 0 /\ cfg.projection_years = 1
    /\ sim.pc = "returned" /\ Len(sim.rows) = 1

-----------------------------------------------------------------------------
(* C7 *)

\* C7: with inflation off, or on with annual_inflation >= 0, the display
\* factor of every finished year is >= 1, is never below the year before's,
\* is (1 + annual_inflation/100)^y at year y when inflation is on and exactly
\* 1 when it is off; no division by zero is raised.
C7_DisplayFactor ==
    (cfg.use_inflation => cfg.annual_inflation >= 0) =>
        /\ sim.pc # "raised"
        /\ \A y \in 1..YearsDone(sim) :
              LET df == sim.hist.years[y].display_factor
              IN  /\ QLeq(Float(1), df)
                  /\ y > 1 => QLeq(sim.hist.years[y - 1].display_factor, df)
                  /\ cfg.use_inflation =>
                        df = QPow(Q(100 + cfg.annual_inflation, 100), y)
                  /\ ~cfg.use_inflation => df = Float(1)
        /\ YearsDone(sim) >= 1 =>
              sim.display_factor = sim.hist.years[YearsDone(sim)].display_factor

\* two years of 100 % inflation: the factor is 4
C7_Witness ==
    /\ cfg.use_inflation /\ cfg.annual_inflation = 100
    /\ YearsDone(sim) = 2 /\ sim.display_factor = Float(4)

-----------------------------------------------------------------------------
(* C10 *)

\* C10: after every month the unrounded balance is initial_investment +
\* cum_deposits + cum_interest + the net income-minus-expenses flows applied -
\* the withdrawals applied; at every year end cum_deposits and cum_interest are
\* the sums of the years' year_deposits and year_interest.  Nothing clamps the
\* balance, which may be negative.
C10_Conservation ==
    /\ sim.balance =
          QSub(QAdd(QAdd(QAdd(Float(cfg.initial_investment), sim.cum_deposits),
                         sim.cum_interest), sim.hist.net), sim.hist.withdrawn)
    /\ sim.pc \in {"for_year", "returned"} =>
          /\ sim.cum_deposits = SumField(sim.hist.years, "deposits")
          /\ sim.cum_interest = SumField(sim.hist.years, "interest")

\* a negative balance after months of deposits, interest, flows and withdrawals
C10_Witness ==
    /\ sim.pc = "for_year" /\ YearsDone(sim) = 2
    /\ QLess(sim.balance, Float(0))
    /\ sim.cum_deposits # Float(0) /\ sim.cum_interest # Float(0)
    /\ sim.hist.net # Float(0) /\ sim.hist.withdrawn # Float(0)

-----------------------------------------------------------------------------
(* C2 *)

-----------------------------------------------------------------------------
(* C3 *)

\* by how much the second run's balance is below the first's at the end of
\* year y
Reduction(y) == QSub(EndBalance(sim, y), EndBalance(simAlt, y))

-----------------------------------------------------------------------------
(* C4 *)

\* the month steps a run has made in the years >= y0
StepsSince(s, y0) ==
    LET first == Max(y0, 1)
    IN  IF s.year < first THEN 0
        ELSE MonthsPerYear * (s.year - first)
             + (IF s.pc = "for_month" THEN s.m ELSE 0)

\* a Monthly withdrawal of amount A from year Y on is subtracted in every
\* month of every year >= Y and in no month before
C4_EveryMonthFromStart ==
    QSub(simAlt.hist.withdrawn, sim.hist.withdrawn) =
        Float(Extra.amount * StepsSince(sim, Extra.start_year))

\* the reduction is zero before year Y
C4_ZeroBefore ==
    \A y \in 1..YearsDone(sim) : y < Extra.start_year => Reduction(y) = Float(0)

\* the reduction grows strictly from year to year from year Y on
C4_StrictlyIncreasing ==
    \A y \in 1..YearsDone(sim) :
        y >= Extra.start_year =>
            QLess(IF y = 1 THEN Float(0) ELSE Reduction(y - 1), Reduction(y))

-----------------------------------------------------------------------------
(* C8 *)

\* C8: the order of the withdrawals list does not matter: a configuration and
\* the same one with its rules reordered have the same balance after every
\* step and the same yearly rows.
C8_OrderIrrelevant ==
    variant = "perm" =>
        /\ sim.rows = simAlt.rows
        /\ sim.balance = simAlt.balance
        /\ sim.year_withdrawals = simAlt.year_withdrawals

\* a reordered list of three rules, all of which have fired, returned
C8_Witness ==
    /\ variant = "perm" /\ Len(cfg.withdrawals) = 3
    /\ alt.withdrawals # cfg.withdrawals
    /\ sim.pc = "returned" /\ Len(sim.rows) = 2
    /\ sim.rows[1]["Yearly Withdrawals"] = Float(6)
    /\ sim.rows[2]["Yearly Withdrawals"] = Float(24)

-----------------------------------------------------------------------------
(* C9 *)

\* every key of DEFAULTS holds its default and no dynamic withdrawal key is left
AtDefaults(ss) ==
    /\ \A k \in DOMAIN DEFAULTS : k \in DOMAIN ss /\ ss[k] = DEFAULTS[k]
    /\ \A k \in DOMAIN ss : ~IsDynamicKey(k)

\* C9: after the user presses Reset, once the reruns it triggers have finished,
\* every key of DEFAULTS holds its default value and no w_type_*, w_amount_*,
\* w_start_* key remains, whatever the state the button was pressed in, a
\* file still held by the uploader included.
C9_ResetRestoresDefaults ==
    (ui.pc = "idle" /\ ui.event = "reset") => AtDefaults(ui.session_state)

\* the same, when the uploader holds no file
C9_ResetWithoutUpload ==
    (ui.pc = "idle" /\ ui.event = "reset" /\ ui.uploaded = None) =>
        AtDefaults(ui.session_state)

====
